---- MODULE Spec2Model ----
(***************************************************************************)
(* Model of atc_del_simulator: the flight plan synthesizer                 *)
(* (get_ifr_flight_plans, generate_vfr_flight_plans, the batch built by    *)
(* the route command) and the departure rule resolution (get_rules_info).  *)
(*                                                                         *)
(* Text is a sequence of atoms (TLA+ strings).  Everything the code splits,*)
(* strips or searches is spelled one character per atom; a dict is a       *)
(* function whose DOMAIN is the set of its keys; a list is a sequence.     *)
(***************************************************************************)
EXTENDS Integers, Sequences, FiniteSets, TLC

VARIABLES
    rules,                 \* ads_config "rules": the Rule Set
    conf,                  \* ads_config: use_cache, database, details
    departures_table,      \* TinyDB table "departures", in insertion order
    source,                \* the departures the AeroAPI answers with
    response,              \* how the request to the AeroAPI ends
    number,                \* option --number / argument number
    vfr_number,            \* option --vfr-number as given
    waypoint,              \* option --waypoint / argument waypoint
    ifr_number,            \* argument number of the last get_ifr_flight_plans
    runway_configuration,  \* option --runway-configuration / argument
    departures,            \* what fetch_departures returned last
    ifr_flight_plans,      \* result of get_ifr_flight_plans
    vfr_flight_plans,      \* result of generate_vfr_flight_plans
    flight_plans,          \* the batch of the route command
    count,                 \* position of the route command in the batch
    rules_details,         \* value returned by the last get_rules_info
    full_clearance,        \* clearance built for the current plan
    raised,                \* exception that ended the last operation
    repeat_call,           \* the last get_rules_info repeated the call before it
    pc                     \* what the program did last

vars == <<rules, conf, departures_table, source, response, number, vfr_number, waypoint,
          ifr_number,
          runway_configuration, departures, ifr_flight_plans,
          vfr_flight_plans, flight_plans, count, rules_details,
          full_clearance, raised, repeat_call, pc>>

(***************************************************************************)
(* Bounds of the model.                                                    *)
(***************************************************************************)
MaxRouteTokens == 2
MaxProcs == 2
MaxNumber == 2
MaxSource == 2

(***************************************************************************)
(* Python values and string operations.                                    *)
(***************************************************************************)
None == <<"None">>
EmptyDict == [k \in {} |-> k]
NoneObj == [None |-> TRUE]
NoError == "none"

Truthy(s) == s # <<>> /\ s # None

Min(a, b) == IF a < b THEN a ELSE b

InList(x, l) == \E i \in 1..Len(l) : l[i] = x

\* "sub in s" for strings
Contains(s, sub) ==
    \E i \in 1..(Len(s) - Len(sub) + 1) : SubSeq(s, i, i + Len(sub) - 1) = sub

\* s.split(" "): one token per single space, empty tokens kept
RECURSIVE Split(_)
Split(s) ==
    IF ~InList(" ", s) THEN <<s>>
    ELSE LET i == CHOOSE j \in 1..Len(s) :
                      s[j] = " " /\ \A h \in 1..(j - 1) : s[h] # " "
         IN  <<SubSeq(s, 1, i - 1)>> \o Split(SubSeq(s, i + 1, Len(s)))

\* s.strip()
RECURSIVE Strip(_)
Strip(s) ==
    IF s = <<>> THEN s
    ELSE IF Head(s) = " " THEN Strip(Tail(s))
    ELSE IF s[Len(s)] = " " THEN Strip(SubSeq(s, 1, Len(s) - 1))
    ELSE s

\* " ".join(tokens)
RECURSIVE Join(_)
Join(tokens) ==
    IF tokens = <<>> THEN <<>>
    ELSE IF Len(tokens) = 1 THEN tokens[1]
    ELSE tokens[1] \o <<" ">> \o Join(Tail(tokens))

\* all sequences over S of length 0..n
RECURSIVE SeqsUpTo(_, _)
SeqsUpTo(S, n) ==
    IF n = 0 THEN {<<>>}
    ELSE LET shorter == SeqsUpTo(S, n - 1)
         IN  shorter \cup {Append(q, x) : q \in shorter, x \in S}

VFR == <<"V", "F", "R">>

(***************************************************************************)
(* Identifiers used by the bounded Rule Sets and routes.                   *)
(***************************************************************************)
ABC == <<"A", "B", "C">>
XYZ == <<"X", "Y", "Z">>
UVW == <<"U", "V", "W">>
PT1 == <<"P", "T", "1">>
PT2 == <<"P", "T", "2">>
ZZZ == <<"Z", "Z", "Z">>
GHI == <<"G", "H", "I">>
KSFO == <<"K", "S", "F", "O">>
KLAX == <<"K", "L", "A", "X">>
SectorN == <<"N">>
SectorSW == <<"S", "W">>

(***************************************************************************)
(* get_rules_info: the departure rule resolution.                          *)
(***************************************************************************)
EmptyRulesDetails ==
    [dep_details |-> EmptyDict, dep_frequency |-> <<>>, dep_transition |-> <<>>,
     dep_waypoint |-> <<>>, sid_details |-> EmptyDict, vfr_altitude |-> <<>>,
     vfr_instructions |-> <<>>]

\* first element of list that satisfies "element in members", <<>> if none
FirstIn(list, members) ==
    IF \E i \in 1..Len(list) : InList(list[i], members)
    THEN list[CHOOSE i \in 1..Len(list) :
                  /\ InList(list[i], members)
                  /\ \A h \in 1..(i - 1) : ~InList(list[h], members)]
    ELSE <<>>

AnyIn(list, members) == \E i \in 1..Len(list) : InList(list[i], members)

\* route_waypoints[0], the token looked up in rules["sids"]
SidToken_last(route_waypoints) == route_waypoints[Len(route_waypoints)]
SidToken(route_waypoints) == route_waypoints[1]

\* runway_configuration in rules["runway_configurations"]
RunwayKnown_always(rs, rc) == TRUE
RunwayKnown(rs, rc) == InList(rc, rs.runway_configurations)

\* the body of "for ifr_departure in rules[ifr_departures][rc]", from entry i on
RECURSIVE ScanIfrDepartures(_, _, _, _, _)
ScanIfrDepartures(procs, i, rd, sid, route_waypoints) ==
    IF i > Len(procs) THEN rd
    ELSE LET ifr_departure == procs[i]
         IN
         IF ifr_departure.sid # SidToken(route_waypoints)
         THEN ScanIfrDepartures(procs, i + 1, rd, sid, route_waypoints)
         ELSE
         LET rd1 == [rd EXCEPT !.sid_details = sid]
         IN
         IF Len(ifr_departure.waypoints) = 0
         THEN \* auto apply
              [rd1 EXCEPT
                 !.dep_details = ifr_departure,
                 !.dep_transition =
                     IF AnyIn(sid.transitions, route_waypoints)
                     THEN FirstIn(sid.transitions, route_waypoints) ELSE @,
                 !.dep_waypoint =
                     IF AnyIn(route_waypoints, sid.waypoints)
                     THEN FirstIn(route_waypoints, sid.waypoints) ELSE @]
         ELSE
         LET rd2 == IF AnyIn(sid.transitions, route_waypoints)
                    THEN [rd1 EXCEPT
                            !.dep_transition = FirstIn(sid.transitions, route_waypoints),
                            !.dep_waypoint = FirstIn(sid.transitions, route_waypoints)]
                    ELSE rd1
         IN
         IF Truthy(rd2.dep_transition)
         THEN [rd2 EXCEPT !.dep_details = ifr_departure]
         ELSE
         LET rd3 == IF AnyIn(route_waypoints, ifr_departure.waypoints)
                    THEN [rd2 EXCEPT
                            !.dep_waypoint =
                                FirstIn(route_waypoints, ifr_departure.waypoints)]
                    ELSE rd2
         IN
         IF Truthy(rd3.dep_waypoint)
         THEN [rd3 EXCEPT !.dep_details = ifr_departure]
         ELSE ScanIfrDepartures(procs, i + 1, rd3, sid, route_waypoints)

\* the IFR branch; [raised, rd]
IfrBranch(rs, route, rc, rd) ==
    IF /\ Truthy(route)
       /\ ~Contains(route, VFR)
       /\ "ifr_departures" \in DOMAIN rs
       /\ "sids" \in DOMAIN rs
    THEN LET route_waypoints == Split(route)
         IN  IF /\ SidToken(route_waypoints) \in DOMAIN rs.sids
                /\ RunwayKnown(rs, rc)
             THEN IF rc \notin DOMAIN rs.ifr_departures
                  THEN [raised |-> "KeyError", rd |-> rd]
                  ELSE [raised |-> NoError,
                        rd |-> ScanIfrDepartures(rs.ifr_departures[rc], 1, rd,
                                   rs.sids[SidToken(route_waypoints)],
                                   route_waypoints)]
             ELSE [raised |-> NoError, rd |-> rd]
    ELSE [raised |-> NoError, rd |-> rd]

\* vfr_direction = flight_plan["route"].split(" ")[1]
SectorOf_first(route) == Split(route)[1]
SectorOf(route) == Split(route)[2]

\* the VFR branch; [raised, rd]
VfrBranch(rs, route, rc, rd) ==
    IF /\ Truthy(route)
       /\ Contains(route, VFR)
       /\ "vfr_departures" \in DOMAIN rs
       /\ RunwayKnown(rs, rc)
    THEN IF Len(Split(route)) < 2
         THEN [raised |-> "IndexError", rd |-> rd]
         ELSE IF rc \notin DOMAIN rs.vfr_departures
         THEN [raised |-> "KeyError", rd |-> rd]
         ELSE
         LET vfr_direction == SectorOf(route)
             list == rs.vfr_departures[rc]
             hits == {i \in 1..Len(list) : InList(vfr_direction, list[i].direction)}
         IN  IF hits = {} THEN [raised |-> NoError, rd |-> rd]
             ELSE LET vfr_departure ==
                          list[CHOOSE i \in hits : \A h \in hits : i <= h]
                  IN  [raised |-> NoError,
                       rd |-> [rd EXCEPT
                                 !.dep_details = vfr_departure,
                                 !.vfr_altitude = vfr_departure.altitude,
                                 !.vfr_instructions = vfr_departure.instructions]]
    ELSE [raised |-> NoError, rd |-> rd]

\* the departure frequency lookup that ends get_rules_info
ResolveFrequency_unchecked(rs, rd) ==
    IF "departure_frequency" \in DOMAIN rd.dep_details
    THEN [rd EXCEPT !.dep_frequency = rd.dep_details.departure_frequency]
    ELSE rd
ResolveFrequency(rs, rd) ==
    IF /\ "departure_frequency" \in DOMAIN rd.dep_details
       /\ "departure_frequencies" \in DOMAIN rs
       /\ rd.dep_details.departure_frequency \in DOMAIN rs.departure_frequencies
    THEN [rd EXCEPT !.dep_frequency =
                        rs.departure_frequencies[rd.dep_details.departure_frequency]]
    ELSE rd

\* get_rules_info(ads_config, flight_plan, runway_configuration):
\* [raised, ret], ret being the returned rules_details when nothing is raised
get_rules_info(rs, flight_plan, rc) ==
    LET ifr == IfrBranch(rs, flight_plan.route, rc, EmptyRulesDetails)
    IN  IF ifr.raised # NoError
        THEN [raised |-> ifr.raised, ret |-> EmptyRulesDetails]
        ELSE LET vfr == VfrBranch(rs, flight_plan.route, rc, ifr.rd)
             IN  IF vfr.raised # NoError
                 THEN [raised |-> vfr.raised, ret |-> EmptyRulesDetails]
                 ELSE [raised |-> NoError, ret |-> ResolveFrequency(rs, vfr.rd)]

\* the Rule Set after get_rules_info: the function assigns nothing in rules,
\* rules_details only holds references to its entries
RulesAfter_aliased(rs, rc, ret) ==
    IF /\ ret.dep_frequency # <<>>
       /\ "ifr_departures" \in DOMAIN rs
       /\ rc \in DOMAIN rs.ifr_departures
    THEN [rs EXCEPT !.ifr_departures[rc] =
             [i \in 1..Len(@) |->
                 IF @[i] = ret.dep_details
                 THEN [@[i] EXCEPT !.departure_frequency = ret.dep_frequency]
                 ELSE @[i]]]
    ELSE rs
RulesAfter(rs, rc, ret) == rs

(***************************************************************************)
(* Flight plans.                                                           *)
(***************************************************************************)
SQUAWK_MIN == 100
SQUAWK_MAX == 6999

FlightPlan(ident, aircraft_type, origin_icao, origin_details, origin_raw_metar, destination_icao, destination_details, operator_icao, route, squawk) ==
    [ident |-> ident, aircraft_type |-> aircraft_type, aircraft_details |-> EmptyDict,
     origin_icao |-> origin_icao, origin_details |-> origin_details,
     origin_raw_metar |-> origin_raw_metar, destination_icao |-> destination_icao,
     destination_details |-> destination_details, operator_icao |-> operator_icao,
     operator_details |-> EmptyDict, route |-> route, squawk |-> squawk,
     rules_details |-> EmptyDict]

(***************************************************************************)
(* fetch_departures, get_ifr_flight_plans, generate_vfr_flight_plans.      *)
(***************************************************************************)
\* random.randint(a, b): an integer of a..b, ends included; the model draws
\* the two ends
randint_wide(a, b) == {0, b + 1}
randint(a, b) == {a, b}

\* the six fields the cache compares before it inserts a departure
NaturalKey(departure) ==
    <<departure.ident, departure.aircraft_type, departure.origin.code_icao,
      departure.destination.code_icao, departure.operator_icao, departure.route>>

\* exception of departure[key][code_icao], NoError if there is none
CodeLookupError(departure, key) ==
    IF key \notin DOMAIN departure THEN "KeyError"
    ELSE IF departure[key] = NoneObj THEN "TypeError"
    ELSE IF "code_icao" \notin DOMAIN departure[key] THEN "KeyError"
    ELSE NoError

\* exception of the six lookups of the cache query, in the order of the code
QueryError(departure) ==
    IF "ident" \notin DOMAIN departure THEN "KeyError"
    ELSE IF "aircraft_type" \notin DOMAIN departure THEN "KeyError"
    ELSE IF CodeLookupError(departure, "origin") # NoError
    THEN CodeLookupError(departure, "origin")
    ELSE IF CodeLookupError(departure, "destination") # NoError
    THEN CodeLookupError(departure, "destination")
    ELSE IF "operator_icao" \notin DOMAIN departure THEN "KeyError"
    ELSE IF "route" \notin DOMAIN departure THEN "KeyError"
    ELSE NoError

\* departure_table.search(...) finds an entry with the departure's six fields
Stored(table, departure) ==
    \E i \in 1..Len(table) : NaturalKey(table[i]) = NaturalKey(departure)

\* the table after "if len(found_items) == 0: departure_table.insert(departure)"
InsertIfNew_unchecked(table, departure) == Append(table, departure)
InsertIfNew(table, departure) ==
    IF Stored(table, departure) THEN table ELSE Append(table, departure)

\* the dedup-checked offer of one departure to the cache: [raised, table]
OfferToCache(table, departure) ==
    IF QueryError(departure) # NoError
    THEN [raised |-> QueryError(departure), table |-> table]
    ELSE [raised |-> NoError, table |-> InsertIfNew(table, departure)]

\* departure[key].strip() if key in departure and departure[key] else ""
TextField(departure, key) ==
    IF key \in DOMAIN departure /\ Truthy(departure[key])
    THEN Strip(departure[key]) ELSE <<>>

\* exception of: "code_icao" in departure[key], NoError if there is none
CodeFieldError(departure, key) ==
    IF key \in DOMAIN departure /\ departure[key] = NoneObj
    THEN "TypeError" ELSE NoError

\* departure[key]["code_icao"].strip() if it is there and truthy, else ""
CodeField(departure, key) ==
    IF /\ key \in DOMAIN departure
       /\ "code_icao" \in DOMAIN departure[key]
       /\ Truthy(departure[key].code_icao)
    THEN Strip(departure[key].code_icao) ELSE <<>>

\* departure[key] if key in departure else ""
DetailsField(departure, key) ==
    IF key \in DOMAIN departure THEN departure[key] ELSE <<>>

\* exception raised while the fields of one departure are read
FieldsError(departure) ==
    IF CodeFieldError(departure, "origin") # NoError
    THEN CodeFieldError(departure, "origin")
    ELSE CodeFieldError(departure, "destination")

\* the flight plan made of one departure
IfrFlightPlan(departure, origin_metar, squawk) ==
    FlightPlan(TextField(departure, "ident"), TextField(departure, "aircraft_type"),
               CodeField(departure, "origin"), DetailsField(departure, "origin"),
               origin_metar, CodeField(departure, "destination"),
               DetailsField(departure, "destination"),
               TextField(departure, "operator_icao"),
               TextField(departure, "route"), squawk)

\* the records of the cache that fetch_departures' query matches
Matching(table, icao, wp) ==
    SelectSeq(table, LAMBDA d : /\ d.origin.code_icao = icao
                                /\ d.route # None
                                /\ Contains(d.route, wp))

\* random.sample(list, k): k entries of distinct positions, in any order
Sample(list, k) ==
    {[i \in 1..k |-> list[pos[i]]] :
        pos \in {q \in [1..k -> 1..Len(list)] :
                    \A i, j \in 1..k : i # j => q[i] # q[j]}}

\* the lists fetch_departures can return
\* [raised, ret]: ret is the returned list when nothing is raised
Returned(lists) == {[raised |-> NoError, ret |-> l] : l \in lists}
fetch_departures(cf, table, resp, api, icao, n, wp) ==
    IF cf.use_cache
    THEN LET matching_departures == Matching(table, icao, wp)
         IN  IF Len(matching_departures) <= n
             THEN Returned({matching_departures})
             ELSE Returned(Sample(matching_departures, n))
    ELSE IF resp = "no_session" THEN Returned({<<>>})
    ELSE IF resp = "connection_error"
    THEN {[raised |-> "ConnectionError", ret |-> <<>>]}
    ELSE IF resp = "http_error" THEN Returned({<<>>})
    ELSE IF resp = "not_json"
    THEN {[raised |-> "JSONDecodeError", ret |-> <<>>]}
    ELSE IF resp = "departures" THEN Returned({api})
    ELSE Returned({<<>>})

\* the loop "for departure in departures" from entry i on:
\* [raised, flight_plans, table]
RECURSIVE IfrLoop(_, _, _, _, _, _, _, _)
IfrLoop(cf, deps, i, n, plans, table, origin_metar, squawks) ==
    IF i > Len(deps) \/ Len(plans) >= n
    THEN [raised |-> NoError, flight_plans |-> plans, table |-> table]
    ELSE LET departure == deps[i]
             offer == IF cf.database /\ ~cf.use_cache
                      THEN OfferToCache(table, departure)
                      ELSE [raised |-> NoError, table |-> table]
         IN  IF offer.raised # NoError
             THEN [raised |-> offer.raised, flight_plans |-> <<>>,
                   table |-> offer.table]
             ELSE IF FieldsError(departure) # NoError
             THEN [raised |-> FieldsError(departure), flight_plans |-> <<>>,
                   table |-> offer.table]
             ELSE IfrLoop(cf, deps, i + 1, n,
                          Append(plans, IfrFlightPlan(departure, origin_metar,
                                                      squawks[Len(plans) + 1])),
                          offer.table, origin_metar, squawks)

\* get_ifr_flight_plans once fetch_departures has ended with fetched
get_ifr_flight_plans(cf, fetched, n, table, origin_metar, squawks) ==
    IF fetched.raised # NoError
    THEN [raised |-> fetched.raised, flight_plans |-> <<>>, table |-> table]
    ELSE IfrLoop(cf, fetched.ret, 1, n, <<>>, table, origin_metar, squawks)

VFR_AIRCRAFT_TYPES == << <<"BE33">>, <<"P28R">> >>
VFR_ROUTES == <<SectorN, <<"S", "F", "O">> >>
VfrIdents == { <<"N", "1", "0", "0", "A", "A">> }

\* one flight plan of generate_vfr_flight_plans, for each random draw
VfrFlightPlans(origin, origin_metar) ==
    {FlightPlan(id, VFR_AIRCRAFT_TYPES[1], origin, EmptyDict, origin_metar,
                <<>>, EmptyDict, <<>>, VFR \o <<" ">> \o VFR_ROUTES[r], sq) :
        id \in VfrIdents, r \in 1..Len(VFR_ROUTES),
        sq \in randint(SQUAWK_MIN, SQUAWK_MAX)}

\* the lists generate_vfr_flight_plans can return: range(n) is empty for n <= 0
generate_vfr_flight_plans(origin, n, origin_metar) ==
    [1..(IF n > 0 THEN n ELSE 0) -> VfrFlightPlans(origin, origin_metar)]

\* what fetch_raw_metar can answer when get_ifr_flight_plans or
\* generate_vfr_flight_plans asks for it (details and no cache)
Metars(cf) ==
    IF cf.details /\ ~cf.use_cache THEN {<<"KSFO 051056Z 28010KT">>}
    ELSE {<<>>}

(***************************************************************************)
(* The clearance the route command builds of a plan and its Rules Details. *)
(***************************************************************************)
DigitChars == <<"0", "1", "2", "3", "4", "5", "6", "7", "8", "9">>

RECURSIVE Decimal(_)
Decimal(n) ==
    IF n < 10 THEN <<DigitChars[n + 1]>>
    ELSE Decimal(n \div 10) \o <<DigitChars[(n % 10) + 1]>>

\* f"{n:04d}" for n >= 0
RECURSIVE ZeroPad(_, _)
ZeroPad(digits, width) ==
    IF Len(digits) >= width THEN digits ELSE ZeroPad(<<"0">> \o digits, width)
Format04d_unpadded(n) == Decimal(n)
Format04d(n) == ZeroPad(Decimal(n), 4)

NonEmptyDict(d) == d # EmptyDict

\* "Radar vectors " before the waypoint of a SID of type RADAR
RadarPrefix_always(rd) == <<"Radar vectors ">>
RadarPrefix(rd) ==
    IF NonEmptyDict(rd.sid_details) /\ rd.sid_details.type = <<"RADAR">>
    THEN <<"Radar vectors ">> ELSE <<>>

\* full_clearance of a plan whose route has no "VFR"
IfrClearance(flight_plan, rd, origin_icao) ==
    flight_plan.ident \o <<", ">> \o origin_icao \o <<" GND, Cleared to ">>
    \o flight_plan.destination_icao \o <<", ">>
    \o (IF NonEmptyDict(rd.sid_details)
        THEN rd.sid_details.name \o <<" departure, ">>
        ELSE <<"direct, ">>)
    \o (IF Truthy(rd.dep_transition)
        THEN rd.dep_transition \o <<" transition, then as filed, ">>
        ELSE IF Truthy(rd.dep_waypoint)
        THEN RadarPrefix(rd) \o rd.dep_waypoint \o <<", then as filed, ">>
        ELSE <<>>)
    \o (IF NonEmptyDict(rd.dep_details) /\ rd.dep_details.cvs
        THEN <<"Climb via SID, ">>
             \o (IF rd.dep_details.top_altitude # <<"SID">>
                 THEN <<"Except maintain ">> \o rd.dep_details.top_altitude
                      \o <<", ">>
                 ELSE <<>>)
        ELSE IF NonEmptyDict(rd.dep_details)
        THEN <<"Maintain ">> \o rd.dep_details.top_altitude \o <<", ">>
        ELSE <<>>)
    \o (IF Truthy(rd.dep_frequency)
        THEN <<"Departure frequency ">> \o rd.dep_frequency \o <<", ">>
        ELSE <<>>)
    \o (IF flight_plan.squawk # 0
        THEN <<"Squawk ">> \o Format04d(flight_plan.squawk) ELSE <<>>)

\* full_clearance of a plan whose route has "VFR"
VfrClearance(flight_plan, rd, origin_icao) ==
    flight_plan.ident \o <<", ">> \o origin_icao \o <<" GND, ">>
    \o (IF Truthy(rd.vfr_instructions)
        THEN <<"On departure ">> \o rd.vfr_instructions \o <<", ">> ELSE <<>>)
    \o (IF Truthy(rd.vfr_altitude)
        THEN <<"Maintain VFR ">> \o rd.vfr_altitude \o <<", ">> ELSE <<>>)
    \o (IF Truthy(rd.dep_frequency)
        THEN <<"Departure frequency ">> \o rd.dep_frequency \o <<", ">>
        ELSE <<>>)
    \o (IF flight_plan.squawk # 0
        THEN <<"Squawk ">> \o Format04d(flight_plan.squawk) ELSE <<>>)

Clearance_always_ifr(flight_plan, rd, origin_icao) ==
    IfrClearance(flight_plan, rd, origin_icao)
Clearance(flight_plan, rd, origin_icao) ==
    IF ~Contains(flight_plan.route, VFR)
    THEN IfrClearance(flight_plan, rd, origin_icao)
    ELSE VfrClearance(flight_plan, rd, origin_icao)

(***************************************************************************)
(* Bounded inputs of the rule resolution: Rule Sets, routes, runways.      *)
(***************************************************************************)
F1 == <<"F1">>
F9 == <<"F9">>

sidABC == [name |-> <<"ABC1">>, type |-> <<"CONV">>,
           transitions |-> <<XYZ, UVW>>, waypoints |-> <<PT1>>]
sidGHI == [name |-> <<"GHI2">>, type |-> <<"RADAR">>,
           transitions |-> <<>>, waypoints |-> <<PT2>>]

depAuto == [sid |-> ABC, waypoints |-> <<>>, cvs |-> TRUE,
            top_altitude |-> <<"SID">>, departure_frequency |-> F1,
            aircraft_types |-> <<>>]
depWaypoint == [sid |-> ABC, waypoints |-> <<PT2>>, cvs |-> FALSE,
                top_altitude |-> <<"5000">>, departure_frequency |-> F9,
                aircraft_types |-> << <<"JET">> >>]
depRadar == [sid |-> GHI, waypoints |-> <<PT2>>, cvs |-> TRUE,
             top_altitude |-> <<"3000">>, aircraft_types |-> <<>>]
IfrDepartureSamples == {depAuto, depWaypoint, depRadar}

vfrNorth == [direction |-> <<SectorN>>, altitude |-> <<"1500">>,
             instructions |-> <<"fly runway heading">>,
             departure_frequency |-> F1]
vfrAny == [direction |-> <<SectorN, SectorSW>>, altitude |-> <<"2500">>,
           instructions |-> <<"turn left">>, departure_frequency |-> F9]

Sections == {"sids", "ifr_departures", "vfr_departures", "departure_frequencies"}

\* a Rule Set with every section; "36" is a runway configuration with or
\* without procedure lists
FullRules(ifr_list, listed36) ==
    [runway_configurations |-> <<"18", "36">>,
     sids |-> (ABC :> sidABC) @@ (GHI :> sidGHI),
     ifr_departures |->
         IF listed36 THEN ("18" :> ifr_list) @@ ("36" :> <<depAuto>>)
         ELSE ("18" :> ifr_list),
     vfr_departures |->
         IF listed36 THEN ("18" :> <<vfrNorth, vfrAny>>) @@ ("36" :> <<vfrAny>>)
         ELSE ("18" :> <<vfrNorth, vfrAny>>),
     departure_frequencies |-> (F1 :> <<"121.9">>)]

\* the Rule Set without the sections in missing
Without(full, missing) ==
    [k \in (DOMAIN full) \ missing |-> full[k]]

\* every list of up to MaxProcs procedures with every section present, and
\* every subset of the sections taken away from the Rule Sets that list at
\* most one procedure
\* one SID with one transition, one procedure without waypoints, no VFR list
sidExample == [name |-> <<"ABC1">>, type |-> <<"CONV">>,
               transitions |-> <<XYZ>>, waypoints |-> <<PT1>>]
ExampleRules ==
    [runway_configurations |-> <<"18">>,
     sids |-> (ABC :> sidExample),
     ifr_departures |-> ("18" :> <<depAuto>>),
     departure_frequencies |-> (F1 :> <<"121.9">>)]

RuleSets ==
    {ExampleRules}
    \cup
    {FullRules(l, b) :
        l \in SeqsUpTo(IfrDepartureSamples, MaxProcs), b \in BOOLEAN}
    \cup
    {Without(FullRules(l, b), m) :
        l \in SeqsUpTo(IfrDepartureSamples, 1), b \in BOOLEAN,
        m \in SUBSET Sections}

RunwayConfigurations == {"18", "36", "99"}

RouteTokens == {ABC, XYZ, UVW, PT2}

Routes ==
    {Join(t) : t \in SeqsUpTo(RouteTokens, MaxRouteTokens)}
    \cup {ZZZ, Join(<<ABC, UVW, XYZ>>), Join(<<ABC, XYZ, PT1>>),
          Join(<<ABC, PT1>>), GHI, Join(<<GHI, PT2>>),
          Join(<<ABC, <<>>, PT2>>), <<" ">> \o ABC,
          VFR, Join(<<VFR, SectorN>>), Join(<<VFR, SectorSW>>),
          Join(<<VFR, <<"E">> >>), Join(<<<<"X">> \o VFR, PT1>>)}

TestFlightPlans ==
    {FlightPlan(<<"N100AB">>, <<"C172">>, <<"KSFO">>, EmptyDict, <<>>,
                <<"KLAX">>, EmptyDict, <<>>, r, sq) :
        r \in Routes, sq \in randint(SQUAWK_MIN, SQUAWK_MAX)}

(***************************************************************************)
(* Specification SpecRules: get_rules_info called, again and again, on one *)
(* flight plan with any runway configuration.                              *)
(***************************************************************************)
InitRules ==
    /\ rules \in RuleSets
    /\ flight_plans \in {<<fp>> : fp \in TestFlightPlans}
    /\ count = 1
    /\ conf = [use_cache |-> FALSE, database |-> FALSE, details |-> TRUE]
    /\ departures_table = <<>>
    /\ source = <<>>
    /\ response = "departures"
    /\ number = 1
    /\ vfr_number = 0
    /\ waypoint = <<>>
    /\ ifr_number = 0
    /\ runway_configuration = "18"
    /\ departures = <<>>
    /\ ifr_flight_plans = <<>>
    /\ vfr_flight_plans = <<>>
    /\ rules_details = EmptyDict
    /\ full_clearance = <<>>
    /\ raised = NoError
    /\ repeat_call = FALSE
    /\ pc = "start"

\* a caller runs get_rules_info(ads_config, flight_plans[count], rc) and
\* builds the clearance of what it returns, as the route command does
CallGetRulesInfo(rc) ==
    LET out == get_rules_info(rules, flight_plans[count], rc)
    IN  /\ pc \in {"start", "get_rules_info"}
        /\ pc' = "get_rules_info"
        /\ runway_configuration' = rc
        /\ repeat_call' = (pc = "get_rules_info" /\ runway_configuration = rc)
        /\ raised' = out.raised
        /\ IF out.raised = NoError
           THEN /\ flight_plans' =
                       [flight_plans EXCEPT ![count].rules_details = out.ret]
                /\ rules_details' = out.ret
                /\ rules' = RulesAfter(rules, rc, out.ret)
                /\ full_clearance' =
                       Clearance(flight_plans[count], out.ret, KSFO)
           ELSE UNCHANGED <<flight_plans, rules_details, rules, full_clearance>>
        /\ UNCHANGED <<conf, departures_table, source, response, number,
                       vfr_number, waypoint, ifr_number, departures, ifr_flight_plans,
                       vfr_flight_plans, count>>

NextRules == \E rc \in RunwayConfigurations : CallGetRulesInfo(rc)

SpecRules == InitRules /\ [][NextRules]_vars

(***************************************************************************)
(* Bounded inputs of the synthesizer: raw departure records, configs.      *)
(***************************************************************************)
\* every field present, text padded with blanks
depPadded ==
    [ident |-> <<" ", "U", "A", "1", " ">>, aircraft_type |-> <<"B", "7", " ">>,
     origin |-> [code_icao |-> KSFO],
     destination |-> [code_icao |-> <<" ">> \o KLAX],
     operator_icao |-> <<"U", "A", "L", " ">>,
     route |-> <<" ">> \o Join(<<ABC, XYZ>>) \o <<" ">>]
\* the same flight without the blanks
depTrimmed ==
    [ident |-> <<"U", "A", "1">>, aircraft_type |-> <<"B", "7">>,
     origin |-> [code_icao |-> KSFO], destination |-> [code_icao |-> KLAX],
     operator_icao |-> <<"U", "A", "L">>, route |-> Join(<<ABC, XYZ>>)]
\* every field present, the text null or empty
depFalsy ==
    [ident |-> None, aircraft_type |-> <<>>, origin |-> [code_icao |-> KSFO],
     destination |-> [code_icao |-> None], operator_icao |-> None,
     route |-> <<>>]
\* fields absent
depAbsent ==
    [origin |-> [code_icao |-> KSFO], destination |-> EmptyDict,
     route |-> Join(<<GHI, PT2>>)]
\* "destination": null
depNullDestination ==
    [ident |-> <<"D", "L", "2">>, aircraft_type |-> <<"A", "3">>,
     origin |-> [code_icao |-> KSFO], destination |-> NoneObj,
     operator_icao |-> <<>>, route |-> ZZZ]

RawDepartures ==
    {depPadded, depTrimmed, depFalsy, depAbsent, depNullDestination}

Sources == SeqsUpTo(RawDepartures, MaxSource)

\* how the request of fetch_departures can end: no session to ask, the
\* request raises ConnectionError or HTTPError, the body is no JSON, the JSON
\* has no "departures", the JSON has "departures"
Responses == {"no_session", "connection_error", "http_error", "not_json",
              "no_departures", "departures"}
\* the request's end with the departures it brings
Answers(sources) ==
    {[response |-> "departures", source |-> l] : l \in sources}
    \cup {[response |-> r, source |-> <<>>] : r \in Responses \ {"departures"}}

\* use_cache, database, details; validate() refuses a cache without database
Configs(detailsSet) ==
    {[use_cache |-> c, database |-> d, details |-> t] :
        c \in BOOLEAN, d \in BOOLEAN, t \in detailsSet}
Valid(cf) == ~(cf.use_cache /\ ~cf.database)

Waypoints == {<<>>, XYZ}

(***************************************************************************)
(* Specification SpecSynth: get_ifr_flight_plans called again and again,   *)
(* the cache kept from one call to the next, the API's answer and the      *)
(* session's options changing in between.                                  *)
(***************************************************************************)
InitSynth ==
    /\ rules = EmptyDict
    /\ conf \in {cf \in Configs({FALSE}) : Valid(cf)}
    /\ departures_table = <<>>
    /\ \E a \in Answers(Sources) : response = a.response /\ source = a.source
    /\ number = 0
    /\ vfr_number = 0
    /\ waypoint \in Waypoints
    /\ ifr_number = 0
    /\ runway_configuration = ""
    /\ departures = <<>>
    /\ ifr_flight_plans = <<>>
    /\ vfr_flight_plans = <<>>
    /\ flight_plans = <<>>
    /\ count = 0
    /\ rules_details = EmptyDict
    /\ full_clearance = <<>>
    /\ raised = NoError
    /\ repeat_call = FALSE
    /\ pc = "start"

\* a caller runs get_ifr_flight_plans(ads_config, KSFO, n, details, waypoint)
CallGetIfrFlightPlans(n) ==
    /\ pc = "start"
    /\ \E fetched \in fetch_departures(conf, departures_table, response, source,
                                        KSFO, n, waypoint),
          origin_metar \in Metars(conf) :
          \E squawks \in [1..Min(n, Len(fetched.ret)) ->
                              randint(SQUAWK_MIN, SQUAWK_MAX)] :
          LET out == get_ifr_flight_plans(conf, fetched, n, departures_table,
                                          origin_metar, squawks)
          IN  /\ departures' = fetched.ret
              /\ raised' = out.raised
              /\ ifr_flight_plans' = out.flight_plans
              /\ departures_table' = out.table
    /\ number' = n
    /\ ifr_number' = n
    /\ pc' = "get_ifr_flight_plans"
    /\ UNCHANGED <<rules, conf, source, response, vfr_number, waypoint,
                   runway_configuration, vfr_flight_plans, flight_plans, count,
                   rules_details, full_clearance, repeat_call>>

\* the session ends: its flight plans are discarded, the cache stays
EndSession ==
    /\ pc = "get_ifr_flight_plans"
    /\ pc' = "start"
    /\ number' = 0
    /\ ifr_number' = 0
    /\ departures' = <<>>
    /\ ifr_flight_plans' = <<>>
    /\ raised' = NoError
    /\ UNCHANGED <<rules, conf, departures_table, source, response, vfr_number,
                   waypoint, runway_configuration, vfr_flight_plans, flight_plans, count,
                   rules_details, full_clearance, repeat_call>>

\* before a call the API comes to answer with other departures
NewAnswer ==
    /\ pc = "start"
    /\ \E a \in Answers(Sources) : response' = a.response /\ source' = a.source
    /\ UNCHANGED <<rules, conf, departures_table, number, vfr_number, waypoint,
                   ifr_number, runway_configuration, departures, ifr_flight_plans,
                   vfr_flight_plans, flight_plans, count, rules_details,
                   full_clearance, raised, repeat_call, pc>>

\* a session starts with other options
NewOptions ==
    /\ pc = "start"
    /\ conf' \in {cf \in Configs({FALSE}) : Valid(cf)}
    /\ waypoint' \in Waypoints
    /\ UNCHANGED <<rules, departures_table, source, response, number,
                   vfr_number, ifr_number, runway_configuration, departures, ifr_flight_plans,
                   vfr_flight_plans, flight_plans, count, rules_details,
                   full_clearance, raised, repeat_call, pc>>

NextSynth ==
    \/ \E n \in 0..MaxNumber : CallGetIfrFlightPlans(n)
    \/ EndSession
    \/ NewAnswer
    \/ NewOptions

SpecSynth == InitSynth /\ [][NextSynth]_vars

(***************************************************************************)
(* The route command: the batch, the review of each plan, the clearance.   *)
(***************************************************************************)
\* what fetch_operator and fetch_aircraft answer: {} without a code
operatorAnswer == [icao |-> <<"UAL">>, callsign |-> <<"United">>]
aircraftAnswer == [manufacturer |-> <<"Boeing">>, type |-> <<"B7">>,
                   description |-> <<"twin-jet">>]
fetch_operator(icao) == IF Truthy(icao) THEN operatorAnswer ELSE EmptyDict
fetch_aircraft(aircraft_type) ==
    IF Truthy(aircraft_type) THEN aircraftAnswer ELSE EmptyDict

\* vfr_number if vfr_number < number else number
ClampVfr(k, n) == IF k < n THEN k ELSE n

\* random.shuffle(list): the list in any order
Shuffles_resampled(list) ==
    {[i \in 1..Len(list) |-> list[q[i]]] : q \in [1..Len(list) -> 1..Len(list)]}
Shuffles(list) ==
    {[i \in 1..Len(list) |-> list[p[i]]] :
        p \in {q \in [1..Len(list) -> 1..Len(list)] :
                  \A i, j \in 1..Len(list) : i # j => q[i] # q[j]}}

RouteDepartures == {depPadded, depNullDestination}
RouteSources == SeqsUpTo(RouteDepartures, MaxSource)
RouteCaches == {<<>>, <<depTrimmed, depFalsy>>}
RouteRules == FullRules(<<depWaypoint, depAuto>>, FALSE)

\* the route command starts with any options; what the options leave unused
\* is left out: no cache without database, no API answer when the cache is
\* read, no rules without details and runway configuration
Init ==
    /\ conf \in Configs(BOOLEAN)
    /\ departures_table \in (IF conf.database THEN RouteCaches ELSE {<<>>})
    /\ \E a \in (IF conf.use_cache
                 THEN {[response |-> "departures", source |-> <<>>]}
                 ELSE Answers(RouteSources)) :
           response = a.response /\ source = a.source
    /\ number \in 0..MaxNumber
    /\ vfr_number \in (0 - 1)..(number + 1)
    /\ waypoint = <<>>
    /\ runway_configuration \in (IF conf.details THEN {"", "18"} ELSE {""})
    /\ rules = IF runway_configuration = "" THEN EmptyDict ELSE RouteRules
    /\ ifr_number = 0
    /\ departures = <<>>
    /\ ifr_flight_plans = <<>>
    /\ vfr_flight_plans = <<>>
    /\ flight_plans = <<>>
    /\ count = 0
    /\ rules_details = EmptyDict
    /\ full_clearance = <<>>
    /\ raised = NoError
    /\ repeat_call = FALSE
    /\ pc = "start"

\* route: validate() reports an error and the command exits
ExitInvalid ==
    /\ pc = "start"
    /\ ~Valid(conf)
    /\ pc' = "exit"
    /\ UNCHANGED <<rules, conf, departures_table, source, response, number,
                   vfr_number, waypoint, ifr_number, runway_configuration, departures,
                   ifr_flight_plans, vfr_flight_plans, flight_plans, count,
                   rules_details, full_clearance, raised, repeat_call>>

\* route, "Loading flight plans...": the IFR plans, the VFR plans, the shuffle
LoadFlightPlans ==
    /\ pc = "start"
    /\ Valid(conf)
    /\ LET vfr == ClampVfr(vfr_number, number)
           n == number - vfr
       IN
       \E fetched \in (IF number > 0
                       THEN fetch_departures(conf, departures_table, response,
                                             source, KSFO, n, waypoint)
                       ELSE Returned({<<>>})),
          origin_metar \in Metars(conf) :
          \E squawks \in [1..Min(n, Len(fetched.ret)) ->
                              randint(SQUAWK_MIN, SQUAWK_MAX)],
             generated \in generate_vfr_flight_plans(KSFO, vfr, origin_metar) :
             LET out == IF number > 0
                        THEN get_ifr_flight_plans(conf, fetched, n,
                                 departures_table, origin_metar, squawks)
                        ELSE [raised |-> NoError, flight_plans |-> <<>>,
                              table |-> departures_table]
             IN  /\ departures' = fetched.ret
                 /\ ifr_number' = IF number > 0 THEN n ELSE 0
                 /\ departures_table' = out.table
                 /\ raised' = out.raised
                 /\ IF out.raised # NoError
                    THEN /\ pc' = "raised"
                         /\ UNCHANGED <<ifr_flight_plans, vfr_flight_plans,
                                        flight_plans>>
                    ELSE /\ pc' = "shuffled"
                         /\ ifr_flight_plans' = out.flight_plans
                         /\ vfr_flight_plans' = generated
                         /\ flight_plans' \in Shuffles(out.flight_plans \o generated)
    /\ UNCHANGED <<rules, conf, source, response, number, vfr_number, waypoint,
                   runway_configuration, count, rules_details, full_clearance,
                   repeat_call>>

\* route, one turn of "for flight_plan in flight_plans" with the answer
\* command to the prompt
ReviewPlan(command) ==
    /\ pc \in {"shuffled", "reviewed"}
    /\ count < Len(flight_plans)
    /\ command \in (IF conf.details THEN {"D", "n"} ELSE {"N"})
    /\ count' = count + 1
    /\ LET flight_plan == flight_plans[count + 1]
           detailed == [flight_plan EXCEPT
                          !.operator_details = fetch_operator(Strip(flight_plan.operator_icao)),
                          !.aircraft_details = fetch_aircraft(Strip(flight_plan.aircraft_type))]
           out == get_rules_info(rules, detailed, runway_configuration)
       IN  IF conf.details /\ command = "D"
           THEN IF NonEmptyDict(rules) /\ runway_configuration # ""
                THEN /\ raised' = out.raised
                     /\ repeat_call' = FALSE
                     /\ rules' = RulesAfter(rules, runway_configuration, out.ret)
                     /\ IF out.raised # NoError
                        THEN /\ pc' = "raised"
                             /\ flight_plans' =
                                    [flight_plans EXCEPT ![count + 1] = detailed]
                             /\ UNCHANGED <<rules_details, full_clearance>>
                        ELSE /\ pc' = "reviewed"
                             /\ flight_plans' =
                                    [flight_plans EXCEPT ![count + 1] =
                                        [detailed EXCEPT !.rules_details = out.ret]]
                             /\ rules_details' = out.ret
                             /\ full_clearance' =
                                    Clearance(detailed, out.ret, KSFO)
                ELSE /\ pc' = "reviewed"
                     /\ flight_plans' =
                            [flight_plans EXCEPT ![count + 1] = detailed]
                     /\ full_clearance' = <<>>
                     /\ UNCHANGED <<rules, rules_details, raised, repeat_call>>
           ELSE /\ pc' = "reviewed"
                /\ UNCHANGED <<rules, flight_plans, rules_details,
                               full_clearance, raised, repeat_call>>
    /\ UNCHANGED <<conf, departures_table, source, response, number, vfr_number,
                   waypoint, ifr_number, runway_configuration, departures,
                   ifr_flight_plans, vfr_flight_plans>>

Next ==
    \/ ExitInvalid
    \/ LoadFlightPlans
    \/ \E command \in {"D", "n", "N"} : ReviewPlan(command)

Spec == Init /\ [][Next]_vars

(***************************************************************************)
(* Claims about get_rules_info, checked under SpecRules.                   *)
(***************************************************************************)
Called == pc = "get_rules_info"
CallRoute == flight_plans[count].route
IfrRoute(route) == Truthy(route) /\ ~Contains(route, VFR)
Lacks(section) == section \notin DOMAIN rules

\* C1: for a runway configuration that is not in the Rule Set's
\* runway_configurations, get_rules_info returns Rules Details whose fields
\* are all empty, whatever the route.
C1_UnknownRunwayAllEmpty ==
    (Called /\ ~InList(runway_configuration, rules.runway_configurations))
        => /\ raised = NoError
           /\ rules_details = EmptyRulesDetails
           /\ flight_plans[count].rules_details = EmptyRulesDetails

C1_Witness ==
    /\ Called
    /\ ~InList(runway_configuration, rules.runway_configurations)
    /\ ~Lacks("sids") /\ ~Lacks("ifr_departures")
    /\ CallRoute = Join(<<ABC, XYZ>>)
    /\ rules.ifr_departures["18"] = <<depAuto>>
    /\ rules_details = EmptyRulesDetails

\* C2: for an IFR flight plan (non-empty route without the VFR marker)
\* whose first route token is no key of sids, get_rules_info returns
\* all-empty Rules Details, whatever the runway configuration.
C2_UnknownSidAllEmpty ==
    (/\ Called
     /\ IfrRoute(CallRoute)
     /\ (Lacks("sids") \/ Split(CallRoute)[1] \notin DOMAIN rules.sids))
        => /\ raised = NoError
           /\ rules_details = EmptyRulesDetails

C2_Witness ==
    /\ Called
    /\ CallRoute = Join(<<XYZ, ABC>>)
    /\ runway_configuration = "18"
    /\ ~Lacks("sids") /\ ~Lacks("ifr_departures")
    /\ rules.ifr_departures["18"] = <<depAuto>>
    /\ rules_details = EmptyRulesDetails

\* C3: a call of get_rules_info leaves the Rule Set as it was, changes
\* nothing of the flight plan but rules_details, which becomes the returned
\* value, and a call that repeats the previous call's flight plan, runway
\* configuration and Rule Set ends as the previous call did.
C3_PureWithWriteBack ==
    [][Called' =>
         /\ rules' = rules
         /\ \A f \in (DOMAIN flight_plans[count]) \ {"rules_details"} :
                flight_plans'[count][f] = flight_plans[count][f]
         /\ raised' = NoError =>
                flight_plans'[count].rules_details = rules_details'
         /\ raised' # NoError => flight_plans' = flight_plans
         /\ (Called /\ runway_configuration' = runway_configuration) =>
                (rules_details' = rules_details /\ raised' = raised)]_vars

C3_Witness ==
    /\ Called /\ repeat_call
    /\ raised = NoError
    /\ rules_details.dep_details = depAuto
    /\ rules_details.dep_frequency = <<"121.9">>
    /\ flight_plans[count].rules_details = rules_details
    /\ flight_plans[count].squawk = SQUAWK_MIN

\* C10: with a Rule Set that lacks some of sids, ifr_departures,
\* vfr_departures and departure_frequencies, get_rules_info returns without
\* failing for every flight plan and runway configuration, and the fields of
\* the branch that lacks its section stay empty.
C10_MissingSectionsTolerated ==
    (Called /\ \E s \in Sections : Lacks(s))
        => /\ raised = NoError
           /\ (Lacks("sids") \/ Lacks("ifr_departures")) =>
                  /\ rules_details.sid_details = EmptyDict
                  /\ rules_details.dep_transition = <<>>
                  /\ rules_details.dep_waypoint = <<>>
                  /\ IfrRoute(CallRoute) => rules_details = EmptyRulesDetails
           /\ Lacks("vfr_departures") =>
                  /\ rules_details.vfr_altitude = <<>>
                  /\ rules_details.vfr_instructions = <<>>
           /\ Lacks("departure_frequencies") =>
                  rules_details.dep_frequency = <<>>

(***************************************************************************)
(* Claims about the batch of the route command, checked under Spec.        *)
(***************************************************************************)
Batched == pc = "shuffled"
VfrMarked(flight_plan) == Contains(flight_plan.route, VFR)
Marked(list) == Cardinality({i \in DOMAIN list : VfrMarked(list[i])})
Unmarked(list) == Cardinality({i \in DOMAIN list : ~VfrMarked(list[i])})
Occurrences(list, x) == Cardinality({i \in DOMAIN list : list[i] = x})
SameMultiset(l1, l2) ==
    /\ Len(l1) = Len(l2)
    /\ \A i \in DOMAIN l1 : Occurrences(l1, l1[i]) = Occurrences(l2, l1[i])
SquawksInRange(list) ==
    \A i \in DOMAIN list : list[i].squawk \in SQUAWK_MIN..SQUAWK_MAX

\* C4: every flight plan that generate_vfr_flight_plans or
\* get_ifr_flight_plans produces has a squawk in 100..6999, and every later
\* step on the batch (details fetched, rules resolved, clearance built)
\* leaves each plan's squawk as it was.
C4_SquawkInRangeAndKept ==
    [][/\ SquawksInRange(ifr_flight_plans')
       /\ SquawksInRange(vfr_flight_plans')
       /\ SquawksInRange(flight_plans')
       /\ pc \in {"shuffled", "reviewed"} =>
              /\ Len(flight_plans') = Len(flight_plans)
              /\ \A i \in DOMAIN flight_plans :
                     flight_plans'[i].squawk = flight_plans[i].squawk]_vars

C4_Witness ==
    /\ pc = "reviewed"
    /\ count = 2 /\ Len(flight_plans) = 2
    /\ \E i, j \in DOMAIN flight_plans :
           /\ VfrMarked(flight_plans[i])
           /\ flight_plans[i].squawk = SQUAWK_MAX
           /\ flight_plans[i].rules_details # EmptyDict
           /\ flight_plans[i].rules_details.dep_details = vfrNorth
           /\ ~VfrMarked(flight_plans[j])
           /\ flight_plans[j].squawk = SQUAWK_MIN
           /\ flight_plans[j].operator_details = operatorAnswer
           /\ flight_plans[j].rules_details # EmptyDict
           /\ flight_plans[j].rules_details.dep_details = depWaypoint
    /\ full_clearance # <<>>

RequestInRange == 0 <= vfr_number /\ vfr_number <= number

\* C5 as stated: a batch requested with total n and VFR count k, 0 <= k <= n,
\* holds after the shuffle exactly k plans with the VFR marker and exactly
\* n - k plans without it, and is a reordering of the plans made.
C5_ExactSplit ==
    (Batched /\ RequestInRange)
        => /\ Marked(flight_plans) = vfr_number
           /\ Unmarked(flight_plans) = number - vfr_number
           /\ SameMultiset(flight_plans, ifr_flight_plans \o vfr_flight_plans)

\* C5 amended: a batch requested with total n and VFR count k, 0 <= k <= n,
\* holds after the shuffle exactly k generated plans with the VFR marker and
\* one plan for each of the first min(n - k, m) of the m records the source
\* delivered, and is a reordering of the IFR plans followed by the VFR plans.
C5_SplitOfDelivered ==
    (Batched /\ RequestInRange)
        => /\ Marked(flight_plans) = vfr_number
           /\ Len(vfr_flight_plans) = vfr_number
           /\ Len(ifr_flight_plans) = Min(number - vfr_number, Len(departures))
           /\ Len(flight_plans) = Len(ifr_flight_plans) + Len(vfr_flight_plans)
           /\ SameMultiset(flight_plans, ifr_flight_plans \o vfr_flight_plans)

C5_Witness ==
    /\ Batched
    /\ number = 2 /\ vfr_number = 1
    /\ Len(flight_plans) = 2
    /\ VfrMarked(flight_plans[1]) /\ ~VfrMarked(flight_plans[2])
    /\ flight_plans # ifr_flight_plans \o vfr_flight_plans

Clamped == IF vfr_number < 0 THEN 0
           ELSE IF vfr_number > number THEN number ELSE vfr_number

\* C6: the route command clamps the VFR count k to 0..n, also a negative k
\* and a k above n: it generates that many VFR plans, asks for n minus that
\* many IFR plans, and the batch never holds more than n plans.
C6_ClampedToInterval ==
    Batched
        => /\ Len(vfr_flight_plans) = Clamped
           /\ ifr_number = number - Clamped
           /\ Len(flight_plans) <= number

(***************************************************************************)
(* Claims about get_ifr_flight_plans, checked under SpecSynth.             *)
(***************************************************************************)
Synthesized == pc = "get_ifr_flight_plans"

\* the records the source holds for the call
Available ==
    IF conf.use_cache THEN Len(Matching(departures_table, KSFO, waypoint))
    ELSE Len(source)

\* C7: get_ifr_flight_plans asked for n plans of a source with m matching
\* records returns min(n, m) plans without raising, each with empty
\* aircraft_details, operator_details and rules_details.
C7_MinOfRequestedAndAvailable ==
    Synthesized
        => /\ raised = NoError
           /\ Len(ifr_flight_plans) = Min(number, Available)
           /\ \A i \in DOMAIN ifr_flight_plans :
                  /\ ifr_flight_plans[i].aircraft_details = EmptyDict
                  /\ ifr_flight_plans[i].operator_details = EmptyDict
                  /\ ifr_flight_plans[i].rules_details = EmptyDict

\* the text of a field as the plan is to carry it
Falsy(v) == v = None \/ v = <<>>
ExpectedText(departure, key) ==
    IF key \notin DOMAIN departure THEN <<>>
    ELSE IF Falsy(departure[key]) THEN <<>>
    ELSE Strip(departure[key])
ExpectedCode(departure, key) ==
    IF key \notin DOMAIN departure THEN <<>>
    ELSE IF departure[key] = NoneObj \/ departure[key] = EmptyDict THEN <<>>
    ELSE IF "code_icao" \notin DOMAIN departure[key] THEN <<>>
    ELSE IF Falsy(departure[key].code_icao) THEN <<>>
    ELSE Strip(departure[key].code_icao)

\* C8: whichever fields of a raw departure record are absent or falsy, with
\* or without the database, get_ifr_flight_plans makes a flight plan of it
\* without raising; an absent or falsy field is the empty string in the
\* plan, a present text is the trimmed source value.
C8_AbsentOrFalsyFieldsTolerated ==
    Synthesized
        => /\ raised = NoError
           /\ \A i \in DOMAIN ifr_flight_plans :
                  /\ ifr_flight_plans[i].ident = ExpectedText(departures[i], "ident")
                  /\ ifr_flight_plans[i].aircraft_type =
                         ExpectedText(departures[i], "aircraft_type")
                  /\ ifr_flight_plans[i].origin_icao =
                         ExpectedCode(departures[i], "origin")
                  /\ ifr_flight_plans[i].destination_icao =
                         ExpectedCode(departures[i], "destination")
                  /\ ifr_flight_plans[i].operator_icao =
                         ExpectedText(departures[i], "operator_icao")
                  /\ ifr_flight_plans[i].route = ExpectedText(departures[i], "route")

IsPrefix(s, t) == Len(s) <= Len(t) /\ \A i \in DOMAIN s : s[i] = t[i]
OneEntryPerKey(table) ==
    \A i, j \in DOMAIN table :
        i # j => NaturalKey(table[i]) # NaturalKey(table[j])

\* C9: the departure of each IFR plan produced is in the cache after the
\* run, the cache holds one entry per natural key (the six fields of the
\* raw record) after any sequence of runs, a run whose departures are all
\* stored leaves the cache as it was, and no run removes or alters an entry.
C9_CacheDedupAppendOnly ==
    [][/\ IsPrefix(departures_table, departures_table')
       /\ OneEntryPerKey(departures_table')
       /\ (Synthesized' /\ conf.database /\ raised' = NoError) =>
              /\ \A i \in DOMAIN ifr_flight_plans' :
                     Stored(departures_table', departures'[i])
              /\ (\A i \in DOMAIN ifr_flight_plans' :
                      Stored(departures_table, departures'[i]))
                     => departures_table' = departures_table]_vars

C9_Witness ==
    /\ Synthesized
    /\ conf.database /\ ~conf.use_cache
    /\ raised = NoError
    /\ departures = <<depPadded, depPadded>>
    /\ Len(ifr_flight_plans) = 2
    /\ departures_table = <<depTrimmed, depPadded>>

(***************************************************************************)
(* Further claims about get_rules_info, checked under SpecRules.           *)
(***************************************************************************)
\* C11: get_rules_info never raises for absent data: for every route
\* (empty, IFR tokens, VFR marker with or without a sector) and every runway
\* configuration (unknown, known with or without a procedure list) it
\* returns Rules Details, with the defaults where nothing matched.
C11_NeverRaisesForAbsentData ==
    Called => raised = NoError

(***************************************************************************)
(* Claim about fetch_departures, checked under SpecSynth.                  *)
(***************************************************************************)
FetchErrors == {"ConnectionError", "JSONDecodeError"}

\* C12: fetch_departures never raises to get_ifr_flight_plans: whatever the
\* end of the request (departures, no departures, HTTP error, connection
\* failure, body that is no JSON, no session) it returns a list, and
\* without departures get_ifr_flight_plans completes with zero plans.
C12_FetchNeverRaises ==
    Synthesized
        => /\ raised \notin FetchErrors
           /\ (~conf.use_cache /\ response # "departures") =>
                  /\ raised = NoError
                  /\ departures = <<>>
                  /\ ifr_flight_plans = <<>>

(***************************************************************************)
(* Claims about the resolution's result and its clearance, checked under   *)
(* SpecRules.                                                              *)
(***************************************************************************)
Returns == Called /\ raised = NoError
CallPlan == flight_plans[count]
Digits == {DigitChars[i] : i \in DOMAIN DigitChars}
\* the value the decimal digits ds stand for
RECURSIVE DigitsValue(_)
DigitsValue(ds) ==
    IF ds = <<>> THEN 0
    ELSE 10 * DigitsValue(SubSeq(ds, 1, Len(ds) - 1))
         + (CHOOSE d \in 0..9 : DigitChars[d + 1] = ds[Len(ds)])
\* the text ends with "Squawk " and the squawk as exactly 4 digits
EndsWithSquawk(text, squawk) ==
    /\ Len(text) >= 6
    /\ text[Len(text) - 4] = "Squawk "
    /\ \A i \in (Len(text) - 3)..Len(text) : text[i] \in Digits
    /\ DigitsValue(SubSeq(text, Len(text) - 3, Len(text))) = squawk
    /\ \A i \in 1..(Len(text) - 5) : text[i] # "Squawk "

ExampleCall ==
    /\ Called
    /\ rules = ExampleRules
    /\ CallRoute = Join(<<ABC, XYZ, PT1>>)
    /\ runway_configuration = "18"

\* C13: with the Rule Set of one SID ABC (name ABC1, type CONV, transition
\* XYZ, waypoint PT1), one procedure for runway 18 (sid ABC, no waypoints,
\* cvs, top_altitude SID, departure_frequency F1) and F1 = 121.9, the route
\* "ABC XYZ PT1" on runway 18 resolves to sid_details.name ABC1,
\* dep_transition XYZ, dep_frequency 121.9, dep_details.cvs true, and the
\* clearance has "ABC1 departure", "Climb via SID" and ends with the squawk
\* clause of exactly 4 digits.
C13_ExampleScenario ==
    ExampleCall
        => /\ raised = NoError
           /\ rules_details.sid_details.name = <<"ABC1">>
           /\ rules_details.dep_transition = XYZ
           /\ rules_details.dep_frequency = <<"121.9">>
           /\ rules_details.dep_details.cvs = TRUE
           /\ Contains(full_clearance, <<"ABC1">> \o <<" departure, ">>)
           /\ Contains(full_clearance, <<"Climb via SID, ">>)
           /\ EndsWithSquawk(full_clearance, CallPlan.squawk)

C13_Witness ==
    /\ ExampleCall
    /\ CallPlan.squawk = SQUAWK_MIN
    /\ rules_details.dep_details = depAuto
    /\ full_clearance =
           <<"N100AB">> \o <<", ">> \o KSFO \o <<" GND, Cleared to ">>
           \o <<"KLAX">> \o <<", ">> \o <<"ABC1">> \o <<" departure, ">>
           \o XYZ \o <<" transition, then as filed, ">>
           \o <<"Climb via SID, ">>
           \o <<"Departure frequency ">> \o <<"121.9">> \o <<", ">>
           \o <<"Squawk ", "0", "1", "0", "0">>

SquawkClause(squawk) == <<"Squawk ">> \o ZeroPad(Decimal(squawk), 4)
\* what every clearance starts with: the callsign and the ground station,
\* for a plan without the VFR marker also the destination and, no SID being
\* matched, "direct"
MinimalPrefix(flight_plan) ==
    IF Contains(flight_plan.route, VFR)
    THEN flight_plan.ident \o <<", ">> \o KSFO \o <<" GND, ">>
    ELSE flight_plan.ident \o <<", ">> \o KSFO \o <<" GND, Cleared to ">>
         \o flight_plan.destination_icao \o <<", ">> \o <<"direct, ">>

\* C14: for every flight plan and every Rules Details that get_rules_info
\* returns, IFR or VFR, the clearance is built and its last clause is the
\* squawk as 4 zero-padded digits; with all Rules Details fields empty the
\* clearance is the minimal prefix followed directly by the squawk clause.
C14_ClearanceEndsWithSquawk ==
    Returns
        => /\ EndsWithSquawk(full_clearance, CallPlan.squawk)
           /\ rules_details = EmptyRulesDetails =>
                  full_clearance =
                      MinimalPrefix(CallPlan) \o SquawkClause(CallPlan.squawk)

C14_Witness ==
    /\ Returns
    /\ CallRoute = ZZZ
    /\ runway_configuration = "18"
    /\ rules = ExampleRules
    /\ rules_details = EmptyRulesDetails
    /\ CallPlan.squawk = SQUAWK_MIN
    /\ full_clearance =
           <<"N100AB">> \o <<", ">> \o KSFO \o <<" GND, Cleared to ">>
           \o <<"KLAX">> \o <<", ">> \o <<"direct, ">>
           \o <<"Squawk ", "0", "1", "0", "0">>

\* the call reaches the scan of the runway configuration's procedure list
Scanned ==
    /\ Returns
    /\ IfrRoute(CallRoute)
    /\ ~Lacks("sids") /\ ~Lacks("ifr_departures")
    /\ Split(CallRoute)[1] \in DOMAIN rules.sids
    /\ InList(runway_configuration, rules.runway_configurations)
    /\ runway_configuration \in DOMAIN rules.ifr_departures
CallTokens == Split(CallRoute)
CallSid == rules.sids[CallTokens[1]]
CallProcs == rules.ifr_departures[runway_configuration]
\* positions of the procedures of the route's SID
OfSid == {i \in DOMAIN CallProcs : CallProcs[i].sid = CallTokens[1]}
FirstOfSid == CHOOSE i \in OfSid : \A h \in OfSid : i <= h
AutoApplies == Scanned /\ OfSid # {} /\ CallProcs[FirstOfSid].waypoints = <<>>

\* C15: when the first procedure of the route's SID in the runway
\* configuration's list declares no waypoints, it becomes dep_details,
\* dep_transition is the first route token that is a transition of the SID
\* and dep_waypoint the first route token that is a waypoint of the SID,
\* each empty if there is none, also with two SID transitions in the route.
C15_AutoApplyInRouteOrder ==
    AutoApplies
        => /\ rules_details.dep_details = CallProcs[FirstOfSid]
           /\ rules_details.sid_details = CallSid
           /\ rules_details.dep_transition =
                  FirstIn(CallTokens, CallSid.transitions)
           /\ rules_details.dep_waypoint =
                  FirstIn(CallTokens, CallSid.waypoints)

InRoute(list) == {t \in {list[i] : i \in DOMAIN list} : InList(t, CallTokens)}
\* procedure i is of the route's SID and auto-applies, or the route has a
\* transition of the SID, or the route has a waypoint of the procedure
Satisfies(i) ==
    /\ CallProcs[i].sid = CallTokens[1]
    /\ \/ CallProcs[i].waypoints = <<>>
       \/ InRoute(CallSid.transitions) # {}
       \/ InRoute(CallProcs[i].waypoints) # {}
Accepted == {i \in DOMAIN CallProcs : Satisfies(i)}
FirstAccepted == CHOOSE i \in Accepted : \A h \in Accepted : i <= h

\* C16: the procedures are examined in list order and skipped unless of the
\* route's SID; a procedure with waypoints is taken with dep_transition and
\* dep_waypoint both a route token that is a transition of the SID, or else
\* with dep_waypoint a route token that is one of its own waypoints and no
\* dep_transition; dep_details is the first procedure in list order that
\* satisfies one of the rules, and nothing set for a rejected procedure is
\* left in the result.
C16_ScanPrecedence ==
    Scanned
        => IF Accepted = {}
           THEN rules_details = EmptyRulesDetails
           ELSE /\ rules_details.dep_details = CallProcs[FirstAccepted]
                /\ rules_details.sid_details = CallSid
                /\ CallProcs[FirstAccepted].waypoints # <<>> =>
                       IF InRoute(CallSid.transitions) # {}
                       THEN /\ rules_details.dep_transition
                                   \in InRoute(CallSid.transitions)
                            /\ rules_details.dep_waypoint =
                                   rules_details.dep_transition
                       ELSE /\ rules_details.dep_transition = <<>>
                            /\ rules_details.dep_waypoint
                                   \in InRoute(CallProcs[FirstAccepted].waypoints)

\* a call with the VFR marker in the route, a sector after it, and a VFR
\* list for the known runway configuration
VfrCall ==
    /\ Called
    /\ Contains(CallRoute, VFR)
    /\ Len(CallTokens) >= 2
    /\ ~Lacks("vfr_departures")
    /\ InList(runway_configuration, rules.runway_configurations)
    /\ runway_configuration \in DOMAIN rules.vfr_departures
VfrList == rules.vfr_departures[runway_configuration]
\* positions of the entries whose direction holds the route's second token
OfSector == {i \in DOMAIN VfrList : InList(CallTokens[2], VfrList[i].direction)}
FirstOfSector == CHOOSE i \in OfSector : \A h \in OfSector : i <= h

\* C17: for a route with the VFR marker, a Rule Set with vfr_departures and
\* a known runway configuration, the sector is the route's second token;
\* dep_details is the first entry of the configuration's VFR list whose
\* direction holds the sector, vfr_altitude and vfr_instructions are copied
\* from it; without such an entry they stay empty; sid_details,
\* dep_transition and dep_waypoint are empty in every VFR result.
C17_VfrFirstEntryOfSector ==
    VfrCall
        => /\ raised = NoError
           /\ rules_details.sid_details = EmptyDict
           /\ rules_details.dep_transition = <<>>
           /\ rules_details.dep_waypoint = <<>>
           /\ IF OfSector = {}
              THEN /\ rules_details.dep_details = EmptyDict
                   /\ rules_details.vfr_altitude = <<>>
                   /\ rules_details.vfr_instructions = <<>>
              ELSE /\ rules_details.dep_details = VfrList[FirstOfSector]
                   /\ rules_details.vfr_altitude = VfrList[FirstOfSector].altitude
                   /\ rules_details.vfr_instructions =
                          VfrList[FirstOfSector].instructions

C17_Witness ==
    /\ VfrCall
    /\ CallRoute = Join(<<VFR, SectorN>>)
    /\ VfrList = <<vfrNorth, vfrAny>>
    /\ rules_details.dep_details = vfrNorth
    /\ rules_details.vfr_altitude = <<"1500">>
    /\ rules_details.vfr_instructions = <<"fly runway heading">>

\* the matched dep_details names a frequency that departure_frequencies has
FrequencyKnown ==
    /\ "departure_frequency" \in DOMAIN rules_details.dep_details
    /\ ~Lacks("departure_frequencies")
    /\ rules_details.dep_details.departure_frequency
           \in DOMAIN rules.departure_frequencies

\* C18: at the end of both branches dep_frequency is
\* departure_frequencies[key] exactly when the matched dep_details has a
\* departure_frequency key that departure_frequencies holds; with no match,
\* no key on the procedure or an unresolved key it is the empty string.
C18_FrequencyResolution ==
    Returns
        => IF FrequencyKnown
           THEN rules_details.dep_frequency =
                    rules.departure_frequencies[
                        rules_details.dep_details.departure_frequency]
           ELSE rules_details.dep_frequency = <<>>

C18_Witness ==
    /\ Returns
    /\ FrequencyKnown
    /\ rules_details.dep_details = vfrNorth
    /\ rules_details.dep_frequency = <<"121.9">>

Set(text) == text # <<>>
SidClause ==
    IF rules_details.sid_details # EmptyDict
    THEN rules_details.sid_details.name \o <<" departure, ">>
    ELSE <<"direct, ">>
TransitionOrWaypointClause ==
    IF Set(rules_details.dep_transition)
    THEN rules_details.dep_transition \o <<" transition, then as filed, ">>
    ELSE IF Set(rules_details.dep_waypoint)
    THEN (IF /\ rules_details.sid_details # EmptyDict
             /\ rules_details.sid_details.type = <<"RADAR">>
          THEN <<"Radar vectors ">> ELSE <<>>)
         \o rules_details.dep_waypoint \o <<", then as filed, ">>
    ELSE <<>>
\* for a matched procedure: climb via SID, with the exception unless the top
\* altitude is the one published with the SID, or else the plain altitude
AltitudeClause ==
    IF rules_details.dep_details = EmptyDict THEN <<>>
    ELSE IF rules_details.dep_details.cvs
    THEN <<"Climb via SID, ">>
         \o (IF rules_details.dep_details.top_altitude # <<"SID">>
             THEN <<"Except maintain ">>
                  \o rules_details.dep_details.top_altitude \o <<", ">>
             ELSE <<>>)
    ELSE <<"Maintain ">> \o rules_details.dep_details.top_altitude \o <<", ">>
FrequencyClause ==
    IF Set(rules_details.dep_frequency)
    THEN <<"Departure frequency ">> \o rules_details.dep_frequency \o <<", ">>
    ELSE <<>>

\* C19: the IFR clearance has, in this order, the SID name clause when
\* sid_details is set and "direct" otherwise; the transition clause when
\* dep_transition is set, otherwise the waypoint clause when dep_waypoint
\* is set, with "Radar vectors" before it exactly for a SID of type RADAR;
\* "Climb via SID" when dep_details.cvs, followed by "Except maintain
\* <top_altitude>" exactly when top_altitude is not "SID", otherwise the
\* plain "Maintain <top_altitude>"; then the frequency and squawk clauses.
C19_IfrClauseSelection ==
    (Returns /\ ~Contains(CallRoute, VFR))
        => full_clearance =
               CallPlan.ident \o <<", ">> \o KSFO \o <<" GND, Cleared to ">>
               \o CallPlan.destination_icao \o <<", ">>
               \o SidClause \o TransitionOrWaypointClause \o AltitudeClause
               \o FrequencyClause \o SquawkClause(CallPlan.squawk)

C19_Witness ==
    /\ Returns
    /\ CallRoute = Join(<<GHI, PT2>>)
    /\ rules_details.dep_details = depRadar
    /\ CallPlan.squawk = SQUAWK_MAX
    /\ full_clearance =
           <<"N100AB">> \o <<", ">> \o KSFO \o <<" GND, Cleared to ">>
           \o <<"KLAX">> \o <<", ">> \o <<"GHI2">> \o <<" departure, ">>
           \o <<"Radar vectors ">> \o PT2 \o <<", then as filed, ">>
           \o <<"Climb via SID, ">> \o <<"Except maintain ">> \o <<"3000">>
           \o <<", ">> \o <<"Squawk ", "6", "9", "9", "9">>

\* C20: the IFR branch never resolves partially: when the scan of the
\* runway configuration's list ends without a procedure that satisfies
\* auto-apply, transition match or waypoint match, the result is all-empty
\* Rules Details; in every IFR result sid_details is set if and only if
\* dep_details is set, and then dep_details.sid is the route's first token.
C20_NoPartialResolution ==
    (Returns /\ IfrRoute(CallRoute))
        => /\ (rules_details.sid_details # EmptyDict)
                  <=> (rules_details.dep_details # EmptyDict)
           /\ rules_details.dep_details # EmptyDict =>
                  rules_details.dep_details.sid = CallTokens[1]
           /\ (Scanned /\ Accepted = {}) => rules_details = EmptyRulesDetails

====
